---- MODULE Spec2Model ----
(***************************************************************************)
(* Model of hrms/api/__init__.py: the whitelisted query endpoints of the   *)
(* HRMS mobile API.  The store (the doctypes' tables the endpoints read)   *)
(* is the state; every endpoint is one action that records its arguments   *)
(* and its return value in ret.  upload_base64_file is the only endpoint   *)
(* that writes to the store.                                               *)
(***************************************************************************)
EXTENDS Integers, Sequences, FiniteSets, Bags, TLC

VARIABLES
    Department,          \* tabDepartment: name -> [lft, rgt, disabled, parent_department]
    DepartmentApprover,  \* tabDepartment Approver: set of child rows [parent, parentfield, idx, approver]
    LeaveApplication,    \* tabLeave Application: name -> document
    ExpenseClaim,        \* tabExpense Claim: name -> document
    File,                \* tabFile: the inserted File documents, oldest first
    ret                  \* the last call: [fn, <arguments>, out]

vars == <<Department, DepartmentApprover, LeaveApplication, ExpenseClaim, File, ret>>

(***************************************************************************)
(* Values                                                                  *)
(***************************************************************************)

\* Python's None, which is also what a NULL column or a missed lookup reads as.
None == "None"

\* Python truthiness of an optional string: `not x`.
Falsy(x) == x \in {None, ""}

(***************************************************************************)
(* Bounds of the model                                                     *)
(***************************************************************************)

\* Rows of tabDepartment Approver in the store.
MaxApproverRows == 2

\* Documents in tabLeave Application, and in tabExpense Claim.
MaxDocs == 2

\* File documents the store takes.
MaxFiles == 1

(***************************************************************************)
(* The tables the approval endpoints read                                  *)
(***************************************************************************)

\* tabUser: name -> full_name.  "u3" is a link value that names no User.
User == ("u1" :> "User One") @@ ("u2" :> "User Two")

UserIds == {"u1", "u2", "u3"}

\* The two child tables of Department that hold Department Approver rows.
ParentFields == {"leave_approvers", "expense_approvers"}

\* The department tree, in nested-set numbering: Field is a child of Ops,
\* Legal is a second root.
DepartmentTree ==
    [ Ops   |-> [lft |-> 1,  rgt |-> 10, parent_department |-> None],
      Field |-> [lft |-> 2,  rgt |-> 7,  parent_department |-> "Ops"],
      Legal |-> [lft |-> 11, rgt |-> 12, parent_department |-> None] ]

DepartmentNames == DOMAIN DepartmentTree

\* tabEmployee: the rows an endpoint may be called for.  An Employee row is
\* identified with its fields; an unset Link field reads as None.
Employee ==
    { [leave_approver |-> o[1], expense_approver |-> o[2], department |-> d]
      : o \in {<<None, None>>, <<"u1", "u3">>, <<"u3", "u1">>},
        d \in {None} \cup DepartmentNames }

\* HR Settings (a single doctype).
HRSettings ==
    [ leave_approver_mandatory_in_leave_application |-> 1,
      expense_approver_mandatory_in_expense_claim   |-> 0 ]

\* The child rows of a sequence of <<parent, parentfield, approver>> entries:
\* idx numbers the rows of one parent and parentfield from 1, as the
\* framework numbers the rows of a child table.
RECURSIVE ChildRows(_)
ChildRows(entries) ==
    IF entries = <<>> THEN {}
    ELSE LET before == ChildRows(SubSeq(entries, 1, Len(entries) - 1))
             e      == entries[Len(entries)]
             n      == Cardinality({r \in before : r.parent = e[1] /\ r.parentfield = e[2]})
         IN  before \cup {[parent |-> e[1], parentfield |-> e[2], idx |-> n + 1, approver |-> e[3]]}

\* The contents of tabDepartment Approver: up to MaxApproverRows rows, a user
\* being listed at most once in one child table of one department.
ApproverTables ==
    { t \in { ChildRows(s) : s \in UNION { [1..n -> DepartmentNames \X ParentFields \X UserIds]
                                            : n \in 0..MaxApproverRows } } :
        \A r1, r2 \in t :
            (r1.parent = r2.parent /\ r1.parentfield = r2.parentfield
                /\ r1.approver = r2.approver) => r1 = r2 }

DepartmentTables ==
    { [d \in DepartmentNames |->
          [lft |-> DepartmentTree[d].lft, rgt |-> DepartmentTree[d].rgt,
           parent_department |-> DepartmentTree[d].parent_department,
           disabled |-> IF d \in off THEN 1 ELSE 0]]
      : off \in SUBSET DepartmentNames }

(***************************************************************************)
(* Approver resolution                                                     *)
(***************************************************************************)

\* frappe.db.get_value("User", name, "full_name"): None when no such User.
UserFullName(name) == IF name \in DOMAIN User THEN User[name] ELSE None

\* frappe.db.get_value("Department Approver",
\*     {"parent": department, "parentfield": parentfield, "idx": 1}, "approver")
ApproverAtIdx1_AnyField(department, parentfield) ==
    LET rows == {r \in DepartmentApprover : r.parent = department /\ r.idx = 1}
    IN  IF rows = {} THEN None ELSE (CHOOSE r \in rows : TRUE).approver

ApproverAtIdx1(department, parentfield) ==
    LET rows == {r \in DepartmentApprover :
                    r.parent = department /\ r.parentfield = parentfield /\ r.idx = 1}
    IN  IF rows = {} THEN None ELSE (CHOOSE r \in rows : TRUE).approver

\* frappe.get_all("Department", filters={"lft": ("<=", lft), "rgt": (">=", rgt),
\*     "disabled": 0}, pluck="name")
SelectDepartments_Descendants(lft, rgt) ==
    {d \in DOMAIN Department :
        Department[d].lft >= lft /\ Department[d].rgt <= rgt /\ Department[d].disabled = 0}

SelectDepartments_WithDisabled(lft, rgt) ==
    {d \in DOMAIN Department : Department[d].lft <= lft /\ Department[d].rgt >= rgt}

SelectDepartments(lft, rgt) ==
    {d \in DOMAIN Department :
        Department[d].lft <= lft /\ Department[d].rgt >= rgt /\ Department[d].disabled = 0}

\* The query User JOIN Department Approver ON approver = User.name WHERE
\* parent IN departments AND parentfield = parentfield: one result row
\* {name, full_name} per matching Department Approver row whose approver is a
\* User.  The result is a bag: the query has no DISTINCT and no ORDER BY.
JoinUserApprover(departments, parentfield) ==
    LET rows  == {r \in DepartmentApprover :
                     /\ r.parent \in departments
                     /\ r.parentfield = parentfield
                     /\ r.approver \in DOMAIN User}
        names == {r.approver : r \in rows}
    IN  [x \in {[name |-> n, full_name |-> User[n]] : n \in names}
            |-> Cardinality({r \in rows : r.approver = x.name})]

\* get_department_approvers(department, parentfield).  raised: reading .lft
\* of the None that get_value returns for a department that is no row of
\* tabDepartment raises AttributeError.  departments is the local list the
\* approvers are collected from.
get_department_approvers_NoGuard(department, parentfield) ==
    IF department \notin DOMAIN Department
    THEN [raised |-> TRUE, departments |-> {}, rows |-> EmptyBag]
    ELSE LET departments == SelectDepartments(Department[department].lft,
                                              Department[department].rgt)
         IN  [raised |-> FALSE, departments |-> departments,
              rows |-> JoinUserApprover(departments, parentfield)]

get_department_approvers(department, parentfield) ==
    IF Falsy(department)
    THEN [raised |-> FALSE, departments |-> {}, rows |-> EmptyBag]
    ELSE IF department \notin DOMAIN Department
    THEN [raised |-> TRUE, departments |-> {}, rows |-> EmptyBag]
    ELSE LET departments == SelectDepartments(Department[department].lft,
                                              Department[department].rgt)
         IN  [raised |-> FALSE, departments |-> departments,
              rows |-> JoinUserApprover(departments, parentfield)]

\* if approver and approver not in [a.name for a in department_approvers]:
\*     department_approvers.append({"name": approver, "full_name": approver_name})
AppendPrimary_Never(approver, approver_name, department_approvers) ==
    department_approvers

AppendPrimary(approver, approver_name, department_approvers) ==
    IF ~Falsy(approver) /\ approver \notin {x.name : x \in BagToSet(department_approvers)}
    THEN department_approvers (+) SetToBag({[name |-> approver, full_name |-> approver_name]})
    ELSE department_approvers

\* The primary leave approver: the employee's leave_approver, else the first
\* leave approver of the employee's department.
LeaveApprover_IgnoreOverride(employee) ==
    IF ~Falsy(employee.department)
    THEN ApproverAtIdx1(employee.department, "leave_approvers")
    ELSE employee.leave_approver

LeaveApprover(employee) ==
    IF Falsy(employee.leave_approver) /\ ~Falsy(employee.department)
    THEN ApproverAtIdx1(employee.department, "leave_approvers")
    ELSE employee.leave_approver

\* The primary expense approver, likewise.
ExpenseApprover(employee) ==
    IF Falsy(employee.expense_approver) /\ ~Falsy(employee.department)
    THEN ApproverAtIdx1(employee.department, "expense_approvers")
    ELSE employee.expense_approver

get_leave_approval_details(employee) ==
    LET leave_approver       == LeaveApprover(employee)
        leave_approver_name  == UserFullName(leave_approver)
        department_approvers == get_department_approvers(employee.department, "leave_approvers")
    IN  IF department_approvers.raised
        THEN [raised |-> TRUE]
        ELSE [raised |-> FALSE,
              leave_approver |-> leave_approver,
              leave_approver_name |-> leave_approver_name,
              department_approvers |->
                  AppendPrimary(leave_approver, leave_approver_name, department_approvers.rows),
              is_mandatory |-> HRSettings.leave_approver_mandatory_in_leave_application,
              departments |-> department_approvers.departments]

get_expense_approval_details(employee) ==
    LET expense_approver      == ExpenseApprover(employee)
        expense_approver_name == UserFullName(expense_approver)
        department_approvers  == get_department_approvers(employee.department, "expense_approvers")
    IN  IF department_approvers.raised
        THEN [raised |-> TRUE]
        ELSE [raised |-> FALSE,
              expense_approver |-> expense_approver,
              expense_approver_name |-> expense_approver_name,
              department_approvers |->
                  AppendPrimary(expense_approver, expense_approver_name, department_approvers.rows),
              is_mandatory |-> HRSettings.expense_approver_mandatory_in_expense_claim,
              departments |-> department_approvers.departments]

(***************************************************************************)
(* The approval endpoints as actions                                       *)
(***************************************************************************)

NoCall == [fn |-> "none"]

InitApproval ==
    /\ Department \in DepartmentTables
    /\ DepartmentApprover \in ApproverTables
    /\ LeaveApplication = <<>>
    /\ ExpenseClaim = <<>>
    /\ File = <<>>
    /\ ret = NoCall

LeaveApprovalDetails ==
    \E employee \in Employee :
        /\ ret' = [fn |-> "get_leave_approval_details", employee |-> employee,
                   out |-> get_leave_approval_details(employee)]
        /\ UNCHANGED <<Department, DepartmentApprover, LeaveApplication, ExpenseClaim, File>>

ExpenseApprovalDetails ==
    \E employee \in Employee :
        /\ ret' = [fn |-> "get_expense_approval_details", employee |-> employee,
                   out |-> get_expense_approval_details(employee)]
        /\ UNCHANGED <<Department, DepartmentApprover, LeaveApplication, ExpenseClaim, File>>

NextApproval == LeaveApprovalDetails \/ ExpenseApprovalDetails

SpecApproval == InitApproval /\ [][NextApproval]_vars

(***************************************************************************)
(* Properties of approver resolution                                       *)
(***************************************************************************)

\* The last call was an approver resolution that returned.
Resolved ==
    /\ ret.fn \in {"get_leave_approval_details", "get_expense_approval_details"}
    /\ ~ret.out.raised

\* The category of the last call, its employee's override and department, and
\* the parts of its result.
Category ==
    IF ret.fn = "get_leave_approval_details" THEN "leave_approvers" ELSE "expense_approvers"

Override ==
    IF ret.fn = "get_leave_approval_details"
    THEN ret.employee.leave_approver ELSE ret.employee.expense_approver

Dept == ret.employee.department

Primary ==
    IF ret.fn = "get_leave_approval_details"
    THEN ret.out.leave_approver ELSE ret.out.expense_approver

PrimaryName ==
    IF ret.fn = "get_leave_approval_details"
    THEN ret.out.leave_approver_name ELSE ret.out.expense_approver_name

Alternates == ret.out.department_approvers

AlternateNames == {x.name : x \in BagToSet(Alternates)}

\* How many entries of the alternates list carry the identifier n.
Occurrences(n) ==
    BagCardinality([x \in {y \in BagToSet(Alternates) : y.name = n} |-> Alternates[x]])

\* d and the departments above it, by the parent_department links.
RECURSIVE AncestorsOrSelf(_)
AncestorsOrSelf(d) ==
    IF d = None THEN {} ELSE {d} \cup AncestorsOrSelf(Department[d].parent_department)

\* The Department Approver rows of the called category on departments ds.
RowsOn(ds) == {r \in DepartmentApprover : r.parent \in ds /\ r.parentfield = Category}

\* C1: whenever the employee's override for the category is non-empty, the
\* returned primary approver is that override, whatever the department and
\* the Department Approver rows are.
C1_OverrideIsPrimary ==
    (Resolved /\ ~Falsy(Override)) => Primary = Override

C1_Witness ==
    /\ Resolved
    /\ Override = "u1"
    /\ Dept = "Field"
    /\ \E r \in RowsOn({"Field"}) : r.idx = 1 /\ r.approver = "u2"
    /\ Primary = "u1"

\* C2: with an empty override and a department, the primary is the approver
\* of the row of exactly that department, the called category and idx 1
\* (None when there is no such row); without a department it is empty.
C2_DepartmentFirstApprover ==
    (Resolved /\ Falsy(Override)) =>
        /\ ~Falsy(Dept) =>
              LET first == {r \in RowsOn({Dept}) : r.idx = 1}
              IN  /\ \A r \in first : Primary = r.approver
                  /\ first = {} => Primary = None
        /\ Falsy(Dept) => Falsy(Primary)

C2_Witness ==
    /\ Resolved
    /\ Falsy(Override)
    /\ Dept = "Field"
    /\ \E r \in RowsOn({"Field"}) : r.idx = 1 /\ r.approver = Primary
    /\ \E r \in DepartmentApprover :
          /\ r.approver # Primary
          /\ r.parent # "Field" \/ r.parentfield # Category \/ r.idx # 1

C4_Original ==
    Resolved =>
        /\ \A n \in AlternateNames : Occurrences(n) = 1
        /\ ~Falsy(Primary) => Occurrences(Primary) = 1

\* C5 as claimed: an employee without a department gets no alternates.
C5_Original ==
    (Resolved /\ Falsy(Dept)) => Alternates = EmptyBag

\* C5 amended: an employee without a department gets no alternates when the
\* override is empty, and exactly the override (with its display name) when
\* it is not; the override is then also the primary.
C5_NoDepartment ==
    (Resolved /\ Falsy(Dept)) =>
        /\ Primary = Override
        /\ Alternates =
              IF Falsy(Override) THEN EmptyBag
              ELSE SetToBag({[name |-> Override,
                              full_name |-> IF Override \in DOMAIN User
                                            THEN User[Override] ELSE None]})

C5_Witness ==
    /\ Resolved
    /\ Falsy(Dept)
    /\ Override = "u1"
    /\ Primary = "u1"
    /\ Occurrences("u1") = 1

EmployeeNames == <<"e1", "e2">>

ApproverNames == <<"u1", "u2">>

LeaveStatuses == <<"Open", "Approved", "Cancelled">>

ClaimStatuses == <<"Draft", "Submitted">>

ApprovalStatuses == <<"Draft", "Approved", "Rejected", "Cancelled">>

DocStatuses == <<0, 1, 2>>

Range(s) == {s[i] : i \in DOMAIN s}

\* The position of x in the sequence s.
Rank(s, x) == CHOOSE i \in DOMAIN s : s[i] = x

\* The tables of up to MaxDocs documents drawn from docs, named 1..n, one
\* table for every bag of documents: the documents are listed in the order
\* of key, a function that gives every document of docs its own number.
TablesOf(docs, key) ==
    { t \in UNION { [1..n -> docs] : n \in 0..MaxDocs } :
        \A i \in DOMAIN t : i > 1 => key[t[i - 1]] <= key[t[i]] }

LeaveDocs ==
    [ employee       : Range(EmployeeNames),
      leave_approver : Range(ApproverNames),
      status         : Range(LeaveStatuses),
      docstatus      : Range(DocStatuses) ]

LeaveKey ==
    [ d \in LeaveDocs |->
        ((Rank(EmployeeNames, d.employee) * 2 + Rank(ApproverNames, d.leave_approver)) * 3
            + Rank(LeaveStatuses, d.status)) * 3 + d.docstatus ]

\* Expense claims as the listing endpoint tells them apart; details is the
\* number of Expense Claim Detail rows of the claim.
ListedClaimDocs ==
    [ employee              : Range(EmployeeNames),
      expense_approver      : Range(ApproverNames),
      status                : Range(ClaimStatuses),
      docstatus             : Range(DocStatuses),
      details               : {0, 1},
      approval_status       : {"Draft"},
      total_claimed_amount  : {1},
      total_sanctioned_amount : {1},
      posting_date          : {1},
      company               : {"Acme"} ]

\* Expense claims as the summary endpoint tells them apart.
SummedClaimDocs ==
    [ employee              : Range(EmployeeNames),
      approval_status       : Range(ApprovalStatuses),
      docstatus             : Range(DocStatuses),
      total_claimed_amount  : {1, 2},
      total_sanctioned_amount : {0, 1},
      expense_approver      : {"u1"},
      status                : {"Draft"},
      details               : {1},
      posting_date          : {1},
      company               : {"Acme"} ]

ClaimKey ==
    [ d \in ListedClaimDocs \cup SummedClaimDocs |->
        ((((((Rank(EmployeeNames, d.employee) * 2 + Rank(ApproverNames, d.expense_approver)) * 2
            + Rank(ClaimStatuses, d.status)) * 4 + Rank(ApprovalStatuses, d.approval_status)) * 3
            + d.docstatus) * 2 + d.details) * 3 + d.total_claimed_amount) * 3
            + d.total_sanctioned_amount ]

(***************************************************************************)
(* Leave application listings                                              *)
(***************************************************************************)

\* What frappe.has_permission("Leave Application", ptype, user=session.user)
\* answers for the session user: one who may cancel, one who may delete.
SessionPermissions ==
    { [cancel |-> TRUE, delete |-> FALSE], [cancel |-> FALSE, delete |-> TRUE] }

\* A frappe filters dict, field -> <<operator, value>>, applied to a document.
Matches(doc, filters) ==
    \A f \in DOMAIN filters :
        IF filters[f][1] = "=" THEN doc[f] = filters[f][2] ELSE doc[f] # filters[f][2]

\* get_leave_applications(filters): the matching documents' listed fields,
\* each with the session user's cancel and delete permission on the doctype.
\* The order (from_date desc) is not modelled.
get_leave_applications(filters, can_cancel, can_delete) ==
    { [name |-> n,
       employee |-> LeaveApplication[n].employee,
       status |-> LeaveApplication[n].status,
       leave_approver |-> LeaveApplication[n].leave_approver,
       can_cancel |-> can_cancel,
       can_delete |-> can_delete]
      : n \in {m \in DOMAIN LeaveApplication : Matches(LeaveApplication[m], filters)} }

EmployeeLeaveFilters(employee) ==
    [employee |-> <<"=", employee>>, status |-> <<"!=", "Cancelled">>]

TeamLeaveFilters_OwnIncluded(employee, user_id) ==
    [leave_approver |-> <<"=", user_id>>,
     status         |-> <<"=", "Open">>,
     docstatus      |-> <<"=", 0>>]

TeamLeaveFilters(employee, user_id) ==
    [employee       |-> <<"!=", employee>>,
     leave_approver |-> <<"=", user_id>>,
     status         |-> <<"=", "Open">>,
     docstatus      |-> <<"=", 0>>]

(***************************************************************************)
(* Expense claim listing                                                   *)
(***************************************************************************)

\* The WHERE clause of get_expense_claims.
ClaimWhere(doc, employee, approver_id, for_approval) ==
    IF for_approval
    THEN /\ doc.docstatus = 0
         /\ doc.status = "Draft"
         /\ doc.expense_approver = approver_id
         /\ doc.employee # employee
    ELSE /\ doc.docstatus # 2
         /\ doc.employee = employee

\* The rows of Expense Claim JOIN Expense Claim Detail ... GROUP BY
\* Claim.name that pass the WHERE clause: one row per claim that has detail
\* rows, total_expenses counting them.
ClaimRows(employee, approver_id, for_approval) ==
    { [name |-> n,
       employee |-> ExpenseClaim[n].employee,
       approval_status |-> ExpenseClaim[n].approval_status,
       status |-> ExpenseClaim[n].status,
       expense_approver |-> ExpenseClaim[n].expense_approver,
       total_claimed_amount |-> ExpenseClaim[n].total_claimed_amount,
       posting_date |-> ExpenseClaim[n].posting_date,
       company |-> ExpenseClaim[n].company,
       total_expenses |-> ExpenseClaim[n].details]
      : n \in {m \in DOMAIN ExpenseClaim :
                  /\ ExpenseClaim[m].details > 0
                  /\ ClaimWhere(ExpenseClaim[m], employee, approver_id, for_approval)} }

\* ORDER BY posting_date DESC, and LIMIT limit `if limit`: the results the
\* query can give.  No limit (None) is written 0, which `if limit` treats
\* alike.  Rows of one posting_date come in any order, so which of them a
\* limit keeps is not determined.
Limited(rows, limit) ==
    IF limit = 0 THEN {rows}
    ELSE { kept \in SUBSET rows :
             /\ Cardinality(kept) = IF Cardinality(rows) < limit
                                    THEN Cardinality(rows) ELSE limit
             /\ \A k \in kept, r \in rows \ kept : k.posting_date >= r.posting_date }

\* get_expense_claims(employee, approver_id, for_approval, limit): the set
\* of the results it can return.
get_expense_claims(employee, approver_id, for_approval, limit) ==
    Limited(ClaimRows(employee, approver_id, for_approval), limit)

(***************************************************************************)
(* The listing endpoints as actions                                        *)
(***************************************************************************)

\* The two tables are read by different endpoints; one of them is populated.
InitListing ==
    /\ Department \in {d \in DepartmentTables : \A n \in DOMAIN d : d[n].disabled = 0}
    /\ DepartmentApprover = {}
    /\ \/ LeaveApplication \in TablesOf(LeaveDocs, LeaveKey) /\ ExpenseClaim = <<>>
       \/ LeaveApplication = <<>> /\ ExpenseClaim \in TablesOf(ListedClaimDocs, ClaimKey)
    /\ File = <<>>
    /\ ret = NoCall

EmployeeLeaveApplications ==
    \E employee \in Range(EmployeeNames), session \in SessionPermissions :
        /\ ret' = [fn |-> "get_employee_leave_applications", employee |-> employee,
                   out |-> get_leave_applications(EmployeeLeaveFilters(employee),
                                                   session.cancel, session.delete)]
        /\ UNCHANGED <<Department, DepartmentApprover, LeaveApplication, ExpenseClaim, File>>

TeamLeaveApplications ==
    \E employee \in Range(EmployeeNames), user_id \in Range(ApproverNames),
       session \in SessionPermissions :
        /\ ret' = [fn |-> "get_team_leave_applications", employee |-> employee,
                   user_id |-> user_id,
                   out |-> get_leave_applications(TeamLeaveFilters(employee, user_id),
                                                   session.cancel, session.delete)]
        /\ UNCHANGED <<Department, DepartmentApprover, LeaveApplication, ExpenseClaim, File>>

ExpenseClaims ==
    \E employee \in Range(EmployeeNames), for_approval \in BOOLEAN, limit \in {0, 1} :
        \E approver_id \in IF for_approval THEN Range(ApproverNames) ELSE {None} :
            \E out \in get_expense_claims(employee, approver_id, for_approval, limit) :
                /\ ret' = [fn |-> "get_expense_claims", employee |-> employee,
                           approver_id |-> approver_id, for_approval |-> for_approval,
                           limit |-> limit, out |-> out]
                /\ UNCHANGED <<Department, DepartmentApprover, LeaveApplication,
                               ExpenseClaim, File>>

NextListing == EmployeeLeaveApplications \/ TeamLeaveApplications \/ ExpenseClaims

SpecListing == InitListing /\ [][NextListing]_vars

(***************************************************************************)
(* Properties of the listings                                              *)
(***************************************************************************)

\* C9: every record of an approval listing (get_team_leave_applications,
\* get_expense_claims with for_approval) has the given approver, is not the
\* given employee's, has docstatus 0 and is Open (leave) or Draft (expense);
\* every record of an owner listing is the given employee's and is not
\* cancelled (leave: status is not Cancelled; expense: docstatus is not 2).
C9_ListingsFiltered ==
    /\ ret.fn = "get_team_leave_applications" =>
          \A row \in ret.out :
              LET doc == LeaveApplication[row.name]
              IN  /\ doc.leave_approver = ret.user_id
                  /\ row.leave_approver = ret.user_id
                  /\ doc.employee # ret.employee
                  /\ doc.docstatus = 0
                  /\ doc.status = "Open"
    /\ (ret.fn = "get_expense_claims" /\ ret.for_approval) =>
          \A row \in ret.out :
              LET doc == ExpenseClaim[row.name]
              IN  /\ doc.expense_approver = ret.approver_id
                  /\ row.expense_approver = ret.approver_id
                  /\ doc.employee # ret.employee
                  /\ doc.docstatus = 0
                  /\ doc.status = "Draft"
    /\ ret.fn = "get_employee_leave_applications" =>
          \A row \in ret.out :
              LET doc == LeaveApplication[row.name]
              IN  doc.employee = ret.employee /\ doc.status # "Cancelled"
    /\ (ret.fn = "get_expense_claims" /\ ~ret.for_approval) =>
          \A row \in ret.out :
              LET doc == ExpenseClaim[row.name]
              IN  doc.employee = ret.employee /\ doc.docstatus # 2

C9_Witness ==
    /\ ret.fn = "get_team_leave_applications"
    /\ ret.out # {}
    /\ \E n \in DOMAIN LeaveApplication :
          /\ n \notin {row.name : row \in ret.out}
          /\ LeaveApplication[n].leave_approver = ret.user_id
          /\ LeaveApplication[n].status = "Open"
          /\ LeaveApplication[n].docstatus = 0
          /\ LeaveApplication[n].employee = ret.employee

(***************************************************************************)
(* Expense claim summary                                                   *)
(***************************************************************************)

\* A nullable number of a query result: Null is SQL NULL (Python None),
\* Num(n) the number n.
Null == <<>>

Num(n) == <<n>>

\* tabCompany: name -> default_currency, and tabCurrency: name -> symbol.
Company == [Acme |-> "USD"]

CurrencySymbol == [USD |-> "$"]

\* CASE WHEN approval_status = 'Draft' THEN total_claimed_amount ELSE 0 END
PendingCase(doc) ==
    IF doc.approval_status = "Draft" THEN doc.total_claimed_amount ELSE 0

\* CASE WHEN approval_status = 'Approved' THEN total_sanctioned_amount ELSE 0 END
ApprovedCase_Claimed(doc) ==
    IF doc.approval_status = "Approved" THEN doc.total_claimed_amount ELSE 0

ApprovedCase(doc) ==
    IF doc.approval_status = "Approved" THEN doc.total_sanctioned_amount ELSE 0

\* CASE WHEN approval_status = 'Rejected' THEN total_sanctioned_amount ELSE 0 END
RejectedCase(doc) ==
    IF doc.approval_status = "Rejected" THEN doc.total_sanctioned_amount ELSE 0

\* The WHERE clause of the summary query.
SummaryWhere(doc, employee) == doc.docstatus # 2 /\ doc.employee = employee

\* SQL SUM(term) over the selected rows, term giving the value of the summed
\* expression on each row: NULL over no rows.
RECURSIVE Total(_)
Total(term) ==
    IF DOMAIN term = {} THEN 0
    ELSE LET n == CHOOSE m \in DOMAIN term : TRUE
         IN  term[n] + Total([m \in DOMAIN term \ {n} |-> term[m]])

Sum(term) == IF DOMAIN term = {} THEN Null ELSE Num(Total(term))

\* get_expense_claim_summary(employee): the one row of the aggregate query,
\* with the currency symbol (or code) of its company.
get_expense_claim_summary(employee) ==
    LET names    == {n \in DOMAIN ExpenseClaim : SummaryWhere(ExpenseClaim[n], employee)}
        company  == IF names = {} THEN None
                    ELSE ExpenseClaim[CHOOSE n \in names : TRUE].company
        currency == IF company \in DOMAIN Company THEN Company[company] ELSE None
        symbol   == IF currency \in DOMAIN CurrencySymbol THEN CurrencySymbol[currency]
                    ELSE None
    IN  [total_pending_amount  |-> Sum([n \in names |-> PendingCase(ExpenseClaim[n])]),
         total_approved_amount |-> Sum([n \in names |-> ApprovedCase(ExpenseClaim[n])]),
         total_rejected_amount |-> Sum([n \in names |-> RejectedCase(ExpenseClaim[n])]),
         company  |-> company,
         currency |-> IF Falsy(symbol) THEN currency ELSE symbol]

InitSummary ==
    /\ Department \in {d \in DepartmentTables : \A n \in DOMAIN d : d[n].disabled = 0}
    /\ DepartmentApprover = {}
    /\ LeaveApplication = <<>>
    /\ ExpenseClaim \in TablesOf(SummedClaimDocs, ClaimKey)
    /\ File = <<>>
    /\ ret = NoCall

ExpenseClaimSummary ==
    \E employee \in Range(EmployeeNames) :
        /\ ret' = [fn |-> "get_expense_claim_summary", employee |-> employee,
                   out |-> get_expense_claim_summary(employee)]
        /\ UNCHANGED <<Department, DepartmentApprover, LeaveApplication, ExpenseClaim, File>>

NextSummary == ExpenseClaimSummary

SpecSummary == InitSummary /\ [][NextSummary]_vars

(***************************************************************************)
(* Properties of the summary                                               *)
(***************************************************************************)

\* The employee's claims that are not cancelled, and those of them with one
\* approval status.
NonCancelledOf(employee) ==
    {n \in DOMAIN ExpenseClaim :
        ExpenseClaim[n].employee = employee /\ ExpenseClaim[n].docstatus # 2}

WithApprovalStatus(employee, approval_status) ==
    {n \in NonCancelledOf(employee) : ExpenseClaim[n].approval_status = approval_status}

\* The sum of one field over the claims named.
RECURSIVE FieldTotal(_, _)
FieldTotal(names, fieldname) ==
    IF names = {} THEN 0
    ELSE LET n == CHOOSE m \in names : TRUE
         IN  ExpenseClaim[n][fieldname] + FieldTotal(names \ {n}, fieldname)

\* C6 as claimed: the three totals are the sums of the claimed amounts of
\* the employee's non-cancelled Draft, Approved and Rejected claims.  The
\* totals of an employee without a non-cancelled claim are not asked for
\* here: a sum over no rows is null, not 0.
C6_Original ==
    (ret.fn = "get_expense_claim_summary" /\ NonCancelledOf(ret.employee) # {}) =>
        /\ ret.out.total_pending_amount =
              Num(FieldTotal(WithApprovalStatus(ret.employee, "Draft"), "total_claimed_amount"))
        /\ ret.out.total_approved_amount =
              Num(FieldTotal(WithApprovalStatus(ret.employee, "Approved"), "total_claimed_amount"))
        /\ ret.out.total_rejected_amount =
              Num(FieldTotal(WithApprovalStatus(ret.employee, "Rejected"), "total_claimed_amount"))

\* C6 amended: for an employee with a non-cancelled claim, the pending total
\* is the sum of total_claimed_amount over the non-cancelled Draft claims,
\* and the approved and rejected totals are the sums of
\* total_sanctioned_amount over the non-cancelled Approved and Rejected
\* claims; for an employee without a non-cancelled claim all three are null.
C6_SummaryTotals ==
    ret.fn = "get_expense_claim_summary" =>
        IF NonCancelledOf(ret.employee) = {}
        THEN /\ ret.out.total_pending_amount = Null
             /\ ret.out.total_approved_amount = Null
             /\ ret.out.total_rejected_amount = Null
        ELSE /\ ret.out.total_pending_amount =
                   Num(FieldTotal(WithApprovalStatus(ret.employee, "Draft"),
                                  "total_claimed_amount"))
             /\ ret.out.total_approved_amount =
                   Num(FieldTotal(WithApprovalStatus(ret.employee, "Approved"),
                                  "total_sanctioned_amount"))
             /\ ret.out.total_rejected_amount =
                   Num(FieldTotal(WithApprovalStatus(ret.employee, "Rejected"),
                                  "total_sanctioned_amount"))

C6_Witness ==
    /\ ret.fn = "get_expense_claim_summary"
    /\ \E n \in WithApprovalStatus(ret.employee, "Approved") :
          /\ ExpenseClaim[n].total_claimed_amount = 2
          /\ ExpenseClaim[n].total_sanctioned_amount = 1
    /\ \E n \in DOMAIN ExpenseClaim :
          /\ ExpenseClaim[n].approval_status = "Approved"
          /\ ExpenseClaim[n].total_sanctioned_amount = 1
          /\ ExpenseClaim[n].employee # ret.employee \/ ExpenseClaim[n].docstatus = 2
    /\ ret.out.total_approved_amount = Num(1)
    /\ ret.out.total_pending_amount = Num(0)

(***************************************************************************)
(* File upload                                                             *)
(***************************************************************************)

\* The base64 alphabet: the character of value v is B64Alphabet[v + 1].
B64Alphabet ==
    << "A", "B", "C", "D", "E", "F", "G", "H", "I", "J", "K", "L", "M", "N", "O", "P",
       "Q", "R", "S", "T", "U", "V", "W", "X", "Y", "Z", "a", "b", "c", "d", "e", "f",
       "g", "h", "i", "j", "k", "l", "m", "n", "o", "p", "q", "r", "s", "t", "u", "v",
       "w", "x", "y", "z", "0", "1", "2", "3", "4", "5", "6", "7", "8", "9", "+", "/" >>

B64Value(c) == (CHOOSE i \in DOMAIN B64Alphabet : B64Alphabet[i] = c) - 1

\* The contents uploaded, character by character: the empty content, the
\* encodings of "A", "AB" and "ABC", one with a character outside the
\* alphabet, one with data after the padding, and four that are no base64
\* (an incomplete quad, with and without padding).
Contents ==
    { <<>>,
      <<"Q", "Q", "=", "=">>,
      <<"Q", "U", "I", "=">>,
      <<"Q", "U", "J", "D">>,
      <<"Q", "!", "Q", "=", "=">>,
      <<"Q", "Q", "=", "=", "Q">>,
      <<"Q">>,
      <<"Q", "U">>,
      <<"Q", "U", "I">>,
      <<"Q", "Q", "=", "Q">> }

\* binascii.a2b_base64 without strict mode, which base64.b64decode(content)
\* calls: characters outside the alphabet are skipped, a complete padding
\* ends the input, data left in an incomplete quad is an error.  The
\* scanner's state: the position i, the place quad_pos in the current quad,
\* the bits leftchar carried over, the padding characters pads seen in a
\* row, and the bytes decoded.
RECURSIVE a2b_base64(_, _, _, _, _, _)
a2b_base64(s, i, quad_pos, leftchar, pads, bytes) ==
    IF i > Len(s)
    THEN IF quad_pos # 0 THEN [raised |-> TRUE, bytes |-> <<>>]
                         ELSE [raised |-> FALSE, bytes |-> bytes]
    ELSE IF s[i] = "="
    THEN IF quad_pos >= 2 /\ quad_pos + pads + 1 >= 4
         THEN [raised |-> FALSE, bytes |-> bytes]
         ELSE a2b_base64(s, i + 1, quad_pos, leftchar,
                         IF quad_pos >= 2 THEN pads + 1 ELSE pads, bytes)
    ELSE IF s[i] \notin Range(B64Alphabet)
    THEN a2b_base64(s, i + 1, quad_pos, leftchar, pads, bytes)
    ELSE LET v == B64Value(s[i])
         IN  CASE quad_pos = 0 -> a2b_base64(s, i + 1, 1, v, 0, bytes)
               [] quad_pos = 1 -> a2b_base64(s, i + 1, 2, v % 16, 0,
                                             Append(bytes, leftchar * 4 + v \div 16))
               [] quad_pos = 2 -> a2b_base64(s, i + 1, 3, v % 4, 0,
                                             Append(bytes, leftchar * 16 + v \div 4))
               [] quad_pos = 3 -> a2b_base64(s, i + 1, 0, 0, 0,
                                             Append(bytes, leftchar * 64 + v))

\* base64.b64decode(content)
b64decode(content) == a2b_base64(content, 1, 0, 0, 0, <<>>)

\* The file names uploaded, as stem and extension.
Filenames ==
    { [stem |-> "claim", ext |-> ".pdf"], [stem |-> "claim", ext |-> ".exe"],
      [stem |-> "claim", ext |-> ""] }

\* mimetypes.guess_type(filename)[0]: by the extension, None without one.
guess_type(filename) ==
    CASE filename.ext = ".pdf"  -> "application/pdf"
      [] filename.ext = ".txt"  -> "text/plain"
      [] filename.ext = ".png"  -> "image/png"
      [] filename.ext = ".jpg"  -> "image/jpeg"
      [] filename.ext = ".exe"  -> "application/x-msdos-program"
      [] filename.ext = ".sh"   -> "text/x-sh"
      [] OTHER -> None

\* frappe.handler.ALLOWED_MIMETYPES
ALLOWED_MIMETYPES ==
    { "image/png", "image/jpeg", "application/pdf", "application/msword",
      "application/vnd.openxmlformats-officedocument.wordprocessingml.document",
      "application/vnd.ms-excel",
      "application/vnd.openxmlformats-officedocument.spreadsheetml.sheet",
      "application/vnd.oasis.opendocument.text",
      "application/vnd.oasis.opendocument.spreadsheet",
      "text/plain", "video/quicktime", "video/mp4" }

\* if content_type not in ALLOWED_MIMETYPES: frappe.throw(...)
TypeAllowed_Any(filename) == TRUE

TypeAllowed(filename) == guess_type(filename) \in ALLOWED_MIMETYPES

\* What a File document is attached to: dt, dn and fieldname, all None by
\* default.
Attachments ==
    { [dt |-> None, dn |-> None, fieldname |-> None],
      [dt |-> "Expense Claim", dn |-> "EXP-1", fieldname |-> "attachment"] }

\* The File document upload_base64_file inserts.
FileDoc(content, decoded_content, filename, dt, dn, fieldname) ==
    [doctype |-> "File", attached_to_doctype |-> dt, attached_to_name |-> dn,
     attached_to_field |-> fieldname, folder |-> "Home", file_name |-> filename,
     content |-> decoded_content, is_private |-> 1]

InitUpload ==
    /\ Department \in {d \in DepartmentTables : \A n \in DOMAIN d : d[n].disabled = 0}
    /\ DepartmentApprover = {}
    /\ LeaveApplication = <<>>
    /\ ExpenseClaim = <<>>
    /\ File = <<>>
    /\ ret = NoCall

\* upload_base64_file(content, filename, dt, dn, fieldname): the content is
\* decoded first, then the type is checked, then the File is inserted.
UploadBase64File ==
    \E content \in Contents, filename \in Filenames, a \in Attachments :
        LET decoded == b64decode(content)
            call    == [fn |-> "upload_base64_file", content |-> content,
                        filename |-> filename, dt |-> a.dt, dn |-> a.dn,
                        fieldname |-> a.fieldname]
        IN  /\ IF decoded.raised
               THEN /\ ret' = call @@ [raised |-> "binascii.Error"]
                    /\ File' = File
               ELSE IF ~TypeAllowed(filename)
               THEN /\ ret' = call @@ [raised |-> "frappe.ValidationError"]
                    /\ File' = File
               ELSE /\ Len(File) < MaxFiles
                    /\ ret' = call @@ [raised |-> "",
                                       out |-> FileDoc(content, decoded.bytes, filename,
                                                       a.dt, a.dn, a.fieldname)]
                    /\ File' = Append(File, FileDoc(content, decoded.bytes, filename,
                                                    a.dt, a.dn, a.fieldname))
            /\ UNCHANGED <<Department, DepartmentApprover, LeaveApplication, ExpenseClaim>>

NextUpload == UploadBase64File

SpecUpload == InitUpload /\ [][NextUpload]_vars

(***************************************************************************)
(* Properties of the upload                                                *)
(***************************************************************************)

\* The standard base64 encoding of a sequence of bytes: three bytes to four
\* characters, the last group padded with "=".
RECURSIVE B64Encode(_)
B64Encode(bytes) ==
    LET ch(v) == B64Alphabet[v + 1]
    IN  CASE Len(bytes) = 0 -> <<>>
          [] Len(bytes) = 1 ->
                << ch(bytes[1] \div 4), ch((bytes[1] % 4) * 16), "=", "=" >>
          [] Len(bytes) = 2 ->
                << ch(bytes[1] \div 4), ch((bytes[1] % 4) * 16 + bytes[2] \div 16),
                   ch((bytes[2] % 16) * 4), "=" >>
          [] OTHER ->
                << ch(bytes[1] \div 4), ch((bytes[1] % 4) * 16 + bytes[2] \div 16),
                   ch((bytes[2] % 16) * 4 + bytes[3] \div 64), ch(bytes[3] % 64) >>
                \o B64Encode(SubSeq(bytes, 4, Len(bytes)))

\* The byte strings whose encodings are uploaded: "", "A", "AB", "ABC".
EncodedBytes == { <<>>, <<65>>, <<65, 66>>, <<65, 66, 67>> }

\* The File document the arguments of the call ask for, with content bytes.
AskedFile(call, bytes) ==
    [doctype |-> "File", attached_to_doctype |-> call.dt, attached_to_name |-> call.dn,
     attached_to_field |-> call.fieldname, folder |-> "Home",
     file_name |-> call.filename, content |-> bytes, is_private |-> 1]

\* The step is a call of upload_base64_file.
UploadStep == ret' # ret \/ File' # File

\* C7 as claimed: a file name whose guessed type is not allowed ends in the
\* user-facing rejection and inserts nothing; an allowed one with valid
\* base64 content inserts exactly one File with the decoded bytes and the
\* given file name and attachment fields.
C7_Original ==
    [][ UploadStep =>
          /\ guess_type(ret'.filename) \notin ALLOWED_MIMETYPES =>
                ret'.raised = "frappe.ValidationError" /\ File' = File
          /\ \A bytes \in EncodedBytes :
                (guess_type(ret'.filename) \in ALLOWED_MIMETYPES
                    /\ ret'.content = B64Encode(bytes)) =>
                        ret'.raised = "" /\ File' = Append(File, AskedFile(ret', bytes))
      ]_vars

\* C7 amended: a file name whose guessed type is not allowed inserts
\* nothing; the call ends in the user-facing rejection when the content
\* decodes as base64, and in the decoder's error, raised before the type is
\* looked at, when it does not.  An allowed file name with valid base64
\* content inserts exactly one File with the decoded bytes and the given
\* file name and attachment fields.
C7_UploadChecked ==
    [][ UploadStep =>
          /\ guess_type(ret'.filename) \notin ALLOWED_MIMETYPES =>
                /\ File' = File
                /\ ret'.raised = IF b64decode(ret'.content).raised
                                 THEN "binascii.Error" ELSE "frappe.ValidationError"
                /\ ret'.content \in {B64Encode(bytes) : bytes \in EncodedBytes} =>
                      ret'.raised = "frappe.ValidationError"
          /\ ret'.filename.ext = ".exe" => File' = File
          /\ \A bytes \in EncodedBytes :
                (guess_type(ret'.filename) \in ALLOWED_MIMETYPES
                    /\ ret'.content = B64Encode(bytes)) =>
                        ret'.raised = "" /\ File' = Append(File, AskedFile(ret', bytes))
      ]_vars

C7_Witness ==
    /\ ret.fn = "upload_base64_file"
    /\ ret.filename.ext = ".pdf"
    /\ ret.content = <<"Q", "U", "I", "=">>
    /\ ret.dt = "Expense Claim"
    /\ ret.raised = ""
    /\ Len(File) = 1
    /\ File[1].content = <<65, 66>>
    /\ File[1].file_name = ret.filename
    /\ File[1].attached_to_name = "EXP-1"

====
